---- MODULE Spec2Model ----
(***************************************************************************)
(* The graph view of the dashboard (src/src/components/graph/Graph.jsx,    *)
(* the zoom/pan + double-tap + auto-pan component at the head of the file) *)
(* driven by the Dashboard that owns the point collection                  *)
(* (src/src/components/dashboard/Dashboard.jsx, second component).         *)
(*                                                                         *)
(* Numbers.  Pixels are integers.  Data coordinates are fixed-point with   *)
(* Unit subdivisions (two decimals); every division rounds to the nearest  *)
(* subdivision, as the floating-point code rounds to the nearest double.   *)
(* The zoom factor k is carried as kn = 2k, so that k = 1/2 is kn = 1.     *)
(* Time is counted in milliseconds, relative to the running timers.        *)
(***************************************************************************)
EXTENDS Integers, Sequences, FiniteSets, TLC

VARIABLES
  points,            \* Dashboard state: the point collection
  highlightedPoint,  \* Dashboard state: highlighted id, 0 for null
  editingPoint,      \* Dashboard state: id of the point in the dialog, 0 for null
  dirty,             \* a state update is waiting for the next React commit
  mounted,           \* the Graph is mounted
  size,              \* the width and height props of the Graph
  effDimensions,     \* `dimensions` as captured by the handlers of the last main effect
  effPoints,         \* `points` as captured by the handlers of the last main effect
  effHighlighted,    \* `highlightedPoint` as seen by the last commit
  zoomTransformRef,  \* zoomTransformRef.current
  zoomNode,          \* svg.__zoom, the transform d3-zoom keeps on the node
  anim,              \* the auto-pan transition in flight
  currentScalesRef,  \* currentScalesRef.current: transform and base domain of the last draw
  drawn,             \* the scales under which the markers of the live DOM were last placed
  isDraggingRef,     \* isDraggingRef.current
  dragStartRef,      \* dragStartRef.current
  drag,              \* the d3-drag gesture in progress, with the handlers' closure and
                     \* whether the pointer has moved, and as far as the click distance; and
                     \* after its end the click the browser still owes to its marker
  markers,           \* the circles of the plot area, in document (paint) order
  stored,            \* localStorage: the item under storageKey
  pointer,           \* the marker the mouse pointer is over, and the last value the
                     \* graph passed to onPointHover
  pending,           \* the trailing call held by debouncedUpdateRef.current
  debouncedLive,     \* the trailing call held by debouncedLive of the edit dialog
  lastTapRef,        \* lastTapRef.current, t kept as the age of the tap
  dblDue,            \* a double tap the browser may still report as dblclick
  tapAdds,           \* add-intents emitted for the touch gesture in progress
  nextId,            \* the clock of the id generator: the timestamp after the last one used
  budget,            \* user gestures left in this run
  out                \* what the last handler emitted through the callbacks

vars == << points, highlightedPoint, editingPoint, dirty, mounted, size,
           effDimensions, effPoints,
           effHighlighted, zoomTransformRef, zoomNode, anim, currentScalesRef, drawn,
           isDraggingRef, dragStartRef, drag, markers, stored, pointer, pending, debouncedLive,
           lastTapRef,
           dblDue, tapAdds, nextId, budget, out >>

(***************************************************************************)
(* Bounds of the model                                                     *)
(***************************************************************************)
MaxGestures == 3      \* user inputs (pointer, wheel and table events) per run
MaxPoints == 3        \* size of the collection up to which adds are explored
MaxZoomIn == 2        \* largest k reached by wheel gestures

(***************************************************************************)
(* Program constants                                                       *)
(***************************************************************************)
Unit == 10 * 10                      \* subdivisions of one data unit
DefaultWidth == 800                  \* width = 800
DefaultHeight == 500                 \* height = 500
ViewportPad == 20                    \* pad, auto-pan effect
DebounceDelay == 16                  \* debounce(..., 16)
LiveDelay == 120                     \* debounce(..., 120) of the edit dialog
WaitCap == 2 * DebounceDelay          \* waits are told apart up to two delays
ClickDistance2 == 4                  \* dx*dx + dy*dy < 4 in drag "end"
DRAG_CLICK_THRESHOLD == 9            \* constants.js, squared distance
DoubleTapWindow == 300               \* dt < 300
DoubleTapDistance2 == 64             \* dx*dx + dy*dy < 64
KnMin == 1                           \* zoomScaleExtent[0] = 0.5, as 2k
KnMax == 80                          \* zoomScaleExtent[1] = 40, as 2k
marginLeft == 50                     \* margin.left
marginTop == 20                      \* margin.top
marginRight == 30                    \* margin.right
marginBottom == 40                   \* margin.bottom
DefaultDomainMax == 100              \* the empty collection's domain [0, 100]
DefaultPadding == 5                  \* `|| 5` of the domain padding
NiceCount == 10                      \* scale.nice() default tick count
NiceMaxIter == 10                    \* maxIter of scale.nice()

(***************************************************************************)
(* Dimensions                                                              *)
(***************************************************************************)
\* the dimensions memo for given width and height props
dimensionsOf(sz) == [innerWidth |-> sz.width - marginLeft - marginRight,
                     innerHeight |-> sz.height - marginTop - marginBottom]

\* const dimensions = useMemo(...), as the next commit will see it
dimensions == dimensionsOf(size)

\* const { innerWidth, innerHeight } = dimensions in the closures of the handlers
innerWidth == effDimensions.innerWidth
innerHeight == effDimensions.innerHeight

DefaultSize == [width |-> DefaultWidth, height |-> DefaultHeight]

(***************************************************************************)
(* Arithmetic                                                              *)
(***************************************************************************)
Min(a, b) == IF a < b THEN a ELSE b
Max(a, b) == IF a > b THEN a ELSE b

\* a / b rounded to the nearest integer, b > 0
RoundDiv(a, b) == (2 * a + b) \div (2 * b)
FloorDiv(a, b) == a \div b
CeilDiv(a, b) == -((-a) \div b)

\* the squared distance of two pixels
dist2(p, q) == (p[1] - q[1]) * (p[1] - q[1]) + (p[2] - q[2]) * (p[2] - q[2])

\* const clamp = (v, min, max) => Math.max(min, Math.min(max, v))
clamp(v, lo, hi) == Max(lo, Min(hi, v))

SetMin(S) == CHOOSE m \in S : \A n \in S : m <= n
SetMax(S) == CHOOSE m \in S : \A n \in S : m >= n

(***************************************************************************)
(* Scale model: domains, d3.scaleLinear().nice(), and the zoom transform   *)
(***************************************************************************)
Identity == [kn |-> 2, tx |-> 0, ty |-> 0]           \* d3.zoomIdentity

\* a coordinate that is not a finite number (NaN, undefined), as a value apart
NaN == -(1000 * Unit)

\* the values d3.min and d3.max see: they skip NaN and undefined
XS(pts) == { pts[i].x : i \in DOMAIN pts } \ { NaN }
YS(pts) == { pts[i].y : i \in DOMAIN pts } \ { NaN }

\* (d3.max(vs) - d3.min(vs)) * 0.05 || 5
Padding(vs) ==
  LET span == SetMax(vs) - SetMin(vs)
  IN  IF span = 0 THEN DefaultPadding * Unit ELSE RoundDiv(span * 5, 100)

\* [d3.min(vs) - d, d3.max(vs) + d]; without a finite value d3.min and d3.max
\* are undefined and both ends are NaN
paddedExtent(vs) ==
  IF vs = {} THEN << NaN, NaN >>
  ELSE << SetMin(vs) - Padding(vs), SetMax(vs) + Padding(vs) >>

\* const domains = useMemo(...)
domains(pts) ==
  IF Len(pts) = 0
    THEN [x |-> << 0, DefaultDomainMax * Unit >>, y |-> << 0, DefaultDomainMax * Unit >>]
    ELSE [x |-> paddedExtent(XS(pts)), y |-> paddedExtent(YS(pts))]

\* d3-array tickIncrement(start, stop, count): the power of ten at or below
\* (stop - start) / count, times 10, 5, 2 or 1 by the error thresholds
\* sqrt(50), sqrt(10), sqrt(2) (compared squared).
tickIncrement(start, stop) ==
  LET span == stop - start
      P    == SetMax({ p \in {1, 10, 100, 1000, 10000} : p * NiceCount <= span })
      e2   == (span * span) \div (P * P * NiceCount * NiceCount)
  IN  (IF e2 >= 50 THEN 10 ELSE IF e2 >= 10 THEN 5 ELSE IF e2 >= 2 THEN 2 ELSE 1) * P

\* d3-scale linear nice(): widen to multiples of the tick step until the step is stable
RECURSIVE niceIter(_, _, _, _, _)
niceIter(start, stop, prestep, n, orig) ==
  IF n = 0 THEN orig
  ELSE LET step == tickIncrement(start, stop)
       IN  IF step = prestep THEN << start, stop >>
           ELSE niceIter(FloorDiv(start, step) * step, CeilDiv(stop, step) * step,
                         step, n - 1, orig)

\* a tick increment that is NaN ends the loop of nice() with the domain as it was
nice(d) == IF d[1] = NaN THEN d ELSE niceIter(d[1], d[2], 0, NiceMaxIter, d)

\* baseScales: d3.scaleLinear().domain(domain).range(range).nice() per axis;
\* w and h are the ends of the two ranges
baseScales(dims, pts) == [x |-> nice(domains(pts).x), y |-> nice(domains(pts).y),
                          w |-> dims.innerWidth, h |-> dims.innerHeight]

\* baseScales.xScale(v), range [0, innerWidth]
baseX(dom, v) == RoundDiv((v - dom.x[1]) * dom.w, dom.x[2] - dom.x[1])
\* baseScales.yScale(v), range [innerHeight, 0]
baseY(dom, v) == RoundDiv((dom.y[2] - v) * dom.h, dom.y[2] - dom.y[1])

\* t.applyX(px) = px * k + tx
applyX(t, px) == RoundDiv(t.kn * px, 2) + t.tx
applyY(t, py) == RoundDiv(t.kn * py, 2) + t.ty

\* the scales of a draw: t.rescaleX(base) and t.rescaleY(base)
rescale(t, dom) == [t |-> t, dom |-> dom]

\* xS(v) and yS(v) of the rescaled scales: where a marker is drawn
scaleX(cs, v) == applyX(cs.t, baseX(cs.dom, v))
scaleY(cs, v) == applyY(cs.t, baseY(cs.dom, v))

\* xS.invert(px) = base.invert((px - tx) / k)
invertX(cs, px) ==
  cs.dom.x[1] + RoundDiv(2 * (px - cs.t.tx) * (cs.dom.x[2] - cs.dom.x[1]),
                         cs.t.kn * cs.dom.w)
\* yS.invert(py), the y range runs from innerHeight down to 0
invertY(cs, py) ==
  cs.dom.y[1] + RoundDiv((cs.t.kn * cs.dom.h - 2 * (py - cs.t.ty))
                           * (cs.dom.y[2] - cs.dom.y[1]),
                         cs.t.kn * cs.dom.h)

\* The collections the fixed-point numbers represent: coordinates within
\* MaxCoord and, per axis, a span of zero or of at least a tenth of a unit.
MaxCoord == 150 * Unit
SpanOk(vs) == LET span == SetMax(vs) - SetMin(vs) IN span = 0 \/ span * 10 >= Unit
Representable(pts) ==
  /\ \A i \in DOMAIN pts : /\ pts[i].x \in -MaxCoord .. MaxCoord
                           /\ pts[i].y \in -MaxCoord .. MaxCoord
  /\ Len(pts) > 0 => SpanOk(XS(pts)) /\ SpanOk(YS(pts))

(***************************************************************************)
(* d3-zoom: the constraint of gestures                                     *)
(***************************************************************************)
\* defaultConstrain with extent = translateExtent = [[0,0],[innerWidth,innerHeight]]:
\* centred when the viewport is larger than the extent (k < 1), else clamped
constrainAxis(kn, tr, len) ==
  IF kn < 2 THEN (len * (2 - kn)) \div 4
  ELSE clamp(tr, -((len * (kn - 2)) \div 2), 0)

constrain(t) == [kn |-> t.kn,
                 tx |-> constrainAxis(t.kn, t.tx, innerWidth),
                 ty |-> constrainAxis(t.kn, t.ty, innerHeight)]

(***************************************************************************)
(* Values                                                                  *)
(***************************************************************************)
\* no call held by debouncedLive
NoLive == [on |-> FALSE, id |-> 0, x |-> 0, y |-> 0, left |-> 0]

\* the pointer over no marker, and no hover emitted or the last one cleared
NoPointer == [over |-> 0, hover |-> 0]

NoDrag == [on |-> FALSE, id |-> 0, start |-> << 0, 0 >>, pos |-> << 0, 0 >>,
           pts |-> << >>, gid |-> 0, el |-> FALSE, moved |-> FALSE, far |-> FALSE,
           click |-> 0, calls |-> 0]
\* left is the time to the trailing edge; waited is the time since the first
\* call the timer holds, since the time since the last invocation (lodash
\* keeps lastCallTime and lastInvokeTime), both kept up to a cap
NoPending == [on |-> FALSE, id |-> 0, x |-> 0, y |-> 0, prev |-> << >>,
              left |-> 0, gid |-> 0, waited |-> 0, since |-> DebounceDelay]
NoAnim == [on |-> FALSE, from |-> Identity, to |-> Identity,
           dom |-> baseScales(dimensionsOf(DefaultSize), << >>), stage |-> 0, stale |-> FALSE]
NoStart == [set |-> FALSE, x |-> 0, y |-> 0]
\* lastTapRef = { t: 0, x: 0, y: 0 }: a tap of time 0 is older than any window
NoTap == [age |-> DoubleTapWindow, x |-> 0, y |-> 0]
NoDbl == [on |-> FALSE, x |-> 0, y |-> 0, onPoint |-> FALSE]

\* the record of one handler run: which callbacks of the Graph it called
Quiet(op) == [op |-> op, change |-> 0, kind |-> "none", click |-> 0, hover |-> 0,
              d2 |-> 0, onPoint |-> FALSE, id |-> 0, gid |-> 0, hlChanged |-> FALSE,
              interrupted |-> FALSE]

\* the sample data of the dashboard, two of its points
SamplePoints == << [id |-> 1, x |-> 10 * Unit, y |-> 20 * Unit],
                   [id |-> 2, x |-> 70 * Unit, y |-> 60 * Unit] >>
InitialPoints == { << >>, SubSeq(SamplePoints, 1, 1), SamplePoints }

\* pointer movement of a drag gesture, relative to the pointerdown pixel
Deltas == { << 0, 0 >>, << 1, 1 >>, << 2, 2 >>, << 40, -30 >>, << -900, 600 >> }
\* movements towards the top-left corner of the plot, the second far beyond it
CornerDeltas == { << -40, -30 >>, << -900, -600 >> }
\* pixels of the plot background (relative to the main group): the center of
\* the plot, and a pixel in the margin
Backgrounds == { << innerWidth \div 2, innerHeight \div 2 >>, << -20, 470 >> }
\* offsets of a second tap from the first
TapOffsets == { << 0, 0 >>, << 2, 2 >>, << 8, 0 >> }
PanDeltas == { << 100, 0 >>, << -150, -60 >> }
\* collections another tab has written under the storage key: the sample, and
\* the sample with the x of its first point missing
StoredCollections == { SamplePoints, [SamplePoints EXCEPT ![1].x = NaN] }
\* collections another tab has written while this one is in use: the sample
\* after the delete of its second point, after the delete of its first, and
\* after an edit of its second
SyncedCollections == { << SamplePoints[1] >>, << SamplePoints[2] >>,
                       [SamplePoints EXCEPT ![2].x = 30 * Unit] }
\* coordinates of stored points, and the collections of up to MaxSnapshot
\* points built from them
SnapshotValues == { NaN, 10 * Unit, 50 * Unit }
MaxSnapshot == 2
Snapshots ==
  UNION { [1 .. n -> SnapshotValues \X SnapshotValues] : n \in 0 .. MaxSnapshot }
snapshotPoints(c) == [i \in DOMAIN c |-> [id |-> i, x |-> c[i][1], y |-> c[i][2]]]
\* coordinates the edit dialog hands to its callbacks
DialogValues == { NaN, 30 * Unit }
\* width and height the owner of the graph gives it
Sizes == { DefaultSize, [width |-> 700, height |-> 500], [width |-> 600, height |-> 400] }
\* steps of the clock for pointer moves of one frame: half the delay, the delay
FrameTicks == { DebounceDelay \div 2, DebounceDelay }
\* steps of the clock, in ms
Ticks == { DebounceDelay, DoubleTapWindow }

IndexOfId(pts, id) == CHOOSE i \in DOMAIN pts : pts[i].id = id
HasId(pts, id) == \E i \in DOMAIN pts : pts[i].id = id
Ids(pts) == { pts[i].id : i \in DOMAIN pts }

\* where the marker of p sits in the live DOM
markerAt(p) == << scaleX(drawn, p.x), scaleY(drawn, p.y) >>
InPlot(px) == px[1] \in 0 .. innerWidth /\ px[2] \in 0 .. innerHeight

(***************************************************************************)
(* Dashboard handlers                                                      *)
(***************************************************************************)
\* sanitizeNumber: const n = Number(val); return Number.isFinite(n) ? n : 0
sanitizeNumber(val) == IF val = NaN THEN 0 ELSE val

\* handlePointsChange(newPoints): setPoints(newPoints.map(sanitize))
handlePointsChange(newPoints) ==
  [i \in DOMAIN newPoints |->
     [newPoints[i] EXCEPT !.x = sanitizeNumber(@), !.y = sanitizeNumber(@)]]

\* prevPoints.map((p) => (p.id === id ? { ...p, x, y } : p))
movePoint(pts, id, x, y) ==
  [i \in DOMAIN pts |-> IF pts[i].id = id THEN [pts[i] EXCEPT !.x = x, !.y = y]
                                          ELSE pts[i]]

\* prev.filter((p) => p.id !== pointId)
RECURSIVE removePoint(_, _)
removePoint(pts, id) ==
  IF Len(pts) = 0 THEN << >>
  ELSE IF Head(pts).id = id THEN removePoint(Tail(pts), id)
       ELSE << Head(pts) >> \o removePoint(Tail(pts), id)

(***************************************************************************)
(* localStorage                                                            *)
(***************************************************************************)
\* null of JSON, a value apart
Null == NaN - Unit
\* JSON.stringify of a number: a number that is not finite is written as null
jsonNumber(v) == IF v = NaN THEN Null ELSE v
\* JSON.stringify(points), as the array JSON.parse reads back from the text;
\* has is FALSE when there is no item under the key
stringify(pts) ==
  [has |-> TRUE,
   v |-> [i \in DOMAIN pts |->
            [id |-> pts[i].id, x |-> jsonNumber(pts[i].x), y |-> jsonNumber(pts[i].y)]]]
\* the initial state of points as it would be if an empty array were not kept
loadPointsNonEmpty(raw) == IF raw.has /\ Len(raw.v) > 0 THEN raw.v ELSE SamplePoints
\* safeParse(localStorage.getItem(storageKey)) ?? SAMPLE_POINTS
loadPoints(raw) == IF raw.has THEN raw.v ELSE SamplePoints

(***************************************************************************)
(* The circles of the plot area                                            *)
(***************************************************************************)
HighlightRadius == 8
PointRadius == 6

\* plot.selectAll(".point").data(points, (d) => d.id).join("circle"): one
\* circle per point, in the order of the collection, nothing styled yet
joinMarkers(pts) ==
  [i \in DOMAIN pts |-> [id |-> pts[i].id, r |-> 0, fill |-> FALSE, dim |-> FALSE]]

\* selection.raise(): the circles of id move behind their last sibling
raise(ms, id) ==
  SelectSeq(ms, LAMBDA m : m.id # id) \o SelectSeq(ms, LAMBDA m : m.id = id)

\* .attr("r", v) on the circle of id
setRadius(ms, id, v) ==
  [i \in DOMAIN ms |-> IF ms[i].id = id THEN [ms[i] EXCEPT !.r = v] ELSE ms[i]]

\* the update branch of the points join in draw, for the highlighted id h of
\* the closure: radius, fill (TRUE for the highlight colour), opacity (dim is
\* 0.35) and raise() of the highlighted circle
drawMarkers(ms, h) ==
  raise([i \in DOMAIN ms |->
           [id |-> ms[i].id,
            r |-> IF h = ms[i].id THEN HighlightRadius ELSE PointRadius,
            fill |-> (h = ms[i].id),
            dim |-> (h # 0 /\ h # ms[i].id)]], h)

\* Date.now().toString(36) + Math.random().toString(36).slice(2, 8): the
\* timestamp `now` followed by the random suffix rnd, as one number
IdStride == 100
\* the first timestamp of the run, after the ids 1 and 2 of the sample
FirstStamp == 3
generateId(now, rnd) == now + IdStride * rnd
\* the random suffixes explored
RandomSuffixes == { 0, 1 }

\* the graph after its first commit, constructed with width and height sz
InitWith(sz) ==
  /\ points \in InitialPoints
  /\ highlightedPoint = 0
  /\ editingPoint = 0
  /\ dirty = FALSE
  /\ mounted = TRUE
  /\ size = sz
  /\ effDimensions = dimensionsOf(sz)
  /\ effPoints = points
  /\ effHighlighted = 0
  /\ zoomTransformRef = Identity
  /\ zoomNode = Identity
  /\ anim = NoAnim
  /\ currentScalesRef = rescale(Identity, baseScales(dimensions, points))
  /\ drawn = rescale(Identity, baseScales(dimensions, points))
  /\ isDraggingRef = FALSE
  /\ dragStartRef = NoStart
  /\ drag = NoDrag
  /\ markers = drawMarkers(joinMarkers(points), 0)
  /\ stored = stringify(points)
  /\ pointer = NoPointer
  /\ pending = NoPending
  /\ debouncedLive = NoLive
  /\ lastTapRef = NoTap
  /\ dblDue = NoDbl
  /\ tapAdds = 0
  /\ nextId = FirstStamp
  /\ budget = MaxGestures
  /\ out = Quiet("init")

Init == InitWith(DefaultSize)

\* the graph constructed with one of the sizes
InitSized == \E sz \in Sizes : InitWith(sz)

dashVars == << points, highlightedPoint, editingPoint, dirty >>
dimVars == << size, effDimensions >>
zoomVars == << zoomTransformRef, zoomNode, anim, currentScalesRef, drawn >>
dragVars == << isDraggingRef, dragStartRef, drag >>
tapVars == << lastTapRef, dblDue, tapAdds >>

\* the graph receives pointer input: it is mounted and the edit dialog,
\* a full-screen overlay while editingPoint is set, does not cover it
Interactive == mounted /\ editingPoint = 0

(***************************************************************************)
(* Hover                                                                   *)
(***************************************************************************)
\* mouseover as it would be without the isDraggingRef guard
mouseoverUnguarded(i) ==
  /\ Interactive /\ budget > 0
  /\ i \in DOMAIN effPoints
  /\ budget' = budget - 1
  /\ highlightedPoint' = effPoints[i].id
  /\ dirty' = (dirty \/ highlightedPoint # effPoints[i].id)
  /\ markers' = setRadius(markers, effPoints[i].id, HighlightRadius)
  /\ out' = [Quiet("mouseover") EXCEPT !.hover = 1, !.id = effPoints[i].id]
  /\ pointer' = [over |-> effPoints[i].id, hover |-> effPoints[i].id]
  /\ UNCHANGED << points, editingPoint, mounted, dimVars, stored, effPoints, effHighlighted,
                  zoomVars, dragVars, pending, debouncedLive, tapVars, nextId >>

\* .on("mouseover", ...) of a marker
mouseover(i) ==
  /\ Interactive /\ budget > 0
  /\ i \in DOMAIN effPoints
  /\ budget' = budget - 1
  /\ IF ~isDraggingRef
       THEN /\ highlightedPoint' = effPoints[i].id
            /\ dirty' = (dirty \/ highlightedPoint # effPoints[i].id)
            /\ markers' = setRadius(markers, effPoints[i].id, HighlightRadius)
            /\ out' = [Quiet("mouseover") EXCEPT !.hover = 1, !.id = effPoints[i].id]
       ELSE /\ UNCHANGED << highlightedPoint, dirty, markers >>
            /\ out' = Quiet("mouseover")
  /\ pointer' = [over |-> effPoints[i].id,
                  hover |-> IF ~isDraggingRef THEN effPoints[i].id ELSE pointer.hover]
  /\ UNCHANGED << points, editingPoint, mounted, dimVars, stored, effPoints, effHighlighted,
                  zoomVars, dragVars, pending, debouncedLive, tapVars, nextId >>

\* .on("mouseout", ...) of a marker
mouseout(i) ==
  /\ mounted /\ budget > 0
  /\ i \in DOMAIN effPoints
  \* the pointer leaves the marker it was over
  /\ pointer.over = effPoints[i].id
  /\ budget' = budget - 1
  /\ IF ~isDraggingRef
       THEN /\ highlightedPoint' = 0
            /\ dirty' = (dirty \/ highlightedPoint # 0)
            /\ markers' = setRadius(markers, effPoints[i].id, PointRadius)
            /\ out' = [Quiet("mouseout") EXCEPT !.hover = 1]
       ELSE /\ UNCHANGED << highlightedPoint, dirty, markers >>
            /\ out' = Quiet("mouseout")
  /\ pointer' = [over |-> 0, hover |-> IF ~isDraggingRef THEN 0 ELSE pointer.hover]
  /\ UNCHANGED << points, editingPoint, mounted, dimVars, stored, effPoints, effHighlighted,
                  zoomVars, dragVars, pending, debouncedLive, tapVars, nextId >>

\* .on("click", ...) of a marker: the click that follows the mouseup of a press
\* without movement, if the circle has not been replaced by a commit; the
\* handler calls onPointClick(d), which is handlePointEdit(d)
markerClick ==
  /\ mounted /\ drag.click # 0
  /\ IF isDraggingRef
       THEN /\ UNCHANGED << highlightedPoint, editingPoint, dirty >>
            /\ out' = Quiet("click")
            /\ drag' = [drag EXCEPT !.click = 0]
       ELSE /\ editingPoint' = drag.click
            /\ highlightedPoint' = drag.click
            /\ dirty' = (dirty \/ highlightedPoint # drag.click)
            /\ out' = [Quiet("click") EXCEPT !.click = 1, !.id = drag.click]
            /\ drag' = [drag EXCEPT !.click = 0, !.calls = @ + 1]
  /\ UNCHANGED << points, mounted, dimVars, markers, stored, pointer, effPoints, effHighlighted, zoomVars,
                  isDraggingRef, dragStartRef, pending, debouncedLive, tapVars, nextId, budget >>

\* a table row's onMouseEnter / onMouseLeave: handlePointHover(id | null)
handlePointHover(h) ==
  /\ mounted /\ editingPoint = 0 /\ budget > 0
  /\ h \in Ids(points) \cup {0}
  /\ h # highlightedPoint
  /\ budget' = budget - 1
  /\ highlightedPoint' = h
  /\ dirty' = TRUE
  /\ out' = Quiet("rowHover")
  /\ UNCHANGED << points, editingPoint, mounted, dimVars, markers, stored, pointer, effPoints, effHighlighted,
                  zoomVars, dragVars, pending, debouncedLive, tapVars, nextId >>

(***************************************************************************)
(* Dragging a marker (d3-drag), and the debounced live update              *)
(***************************************************************************)
\* drag.on("start", ...): the pointer goes down on the marker of effPoints[i]
dragStart(i) ==
  /\ Interactive /\ budget > 0 /\ ~drag.on
  /\ i \in DOMAIN effPoints
  /\ InPlot(markerAt(effPoints[i]))
  /\ budget' = budget - 1
  /\ isDraggingRef' = TRUE
  /\ dragStartRef' = [set |-> TRUE, x |-> markerAt(effPoints[i])[1],
                                     y |-> markerAt(effPoints[i])[2]]
  /\ drag' = [on |-> TRUE, id |-> effPoints[i].id, start |-> markerAt(effPoints[i]),
              pos |-> markerAt(effPoints[i]), pts |-> effPoints, gid |-> budget, el |-> TRUE,
              moved |-> FALSE, far |-> FALSE, click |-> 0, calls |-> 0]
  \* d3.select(this).raise().attr("r", 8)
  /\ markers' = setRadius(raise(markers, effPoints[i].id), effPoints[i].id, HighlightRadius)
  /\ dblDue' = NoDbl
  /\ out' = Quiet("dragStart")
  \* the press is on the marker
  /\ pointer' = [pointer EXCEPT !.over = effPoints[i].id]
  /\ UNCHANGED << dashVars, mounted, dimVars, stored, effPoints, effHighlighted, zoomVars,
                  pending, debouncedLive, lastTapRef, tapAdds, nextId >>

\* the drag handler as it would be if the live update were not held back
dragMoveImmediate(delta) ==
  /\ drag.on /\ budget > 0
  /\ budget' = budget - 1
  /\ LET pos  == << drag.start[1] + delta[1], drag.start[2] + delta[2] >>
         mx   == clamp(pos[1], 0, innerWidth)
         my   == clamp(pos[2], 0, innerHeight)
         newX == invertX(currentScalesRef, mx)
         newY == invertY(currentScalesRef, my)
     IN  /\ pos # drag.pos
         /\ Representable(movePoint(drag.pts, drag.id, newX, newY))
         /\ drag' = [drag EXCEPT !.pos = pos, !.moved = TRUE,
                                  !.far = @ \/ dist2(pos, drag.start) >= ClickDistance2]
         /\ pending' = [on |-> TRUE, id |-> drag.id, x |-> newX, y |-> newY,
                        prev |-> drag.pts, left |-> 0, gid |-> drag.gid,
                        waited |-> IF pending.on THEN pending.waited ELSE 0,
                        since |-> pending.since]
  /\ out' = Quiet("drag")
  /\ UNCHANGED << debouncedLive, dashVars, mounted, dimVars, markers, stored, pointer, effPoints, effHighlighted, zoomVars,
                  isDraggingRef, dragStartRef, tapVars, nextId >>

\* drag.on("drag", ...): the pointer moves to start + delta; the live update
\* goes through debouncedUpdateRef.current, which restarts its 16 ms wait
dragMove(delta) ==
  /\ drag.on /\ budget > 0
  /\ budget' = budget - 1
  /\ LET pos  == << drag.start[1] + delta[1], drag.start[2] + delta[2] >>
         mx   == clamp(pos[1], 0, innerWidth)
         my   == clamp(pos[2], 0, innerHeight)
         newX == invertX(currentScalesRef, mx)
         newY == invertY(currentScalesRef, my)
     IN  /\ pos # drag.pos
         /\ Representable(movePoint(drag.pts, drag.id, newX, newY))
         /\ drag' = [drag EXCEPT !.pos = pos, !.moved = TRUE,
                                  !.far = @ \/ dist2(pos, drag.start) >= ClickDistance2]
         /\ pending' = [on |-> TRUE, id |-> drag.id, x |-> newX, y |-> newY,
                        prev |-> drag.pts, left |-> DebounceDelay, gid |-> drag.gid,
                        waited |-> IF pending.on THEN pending.waited ELSE 0,
                        since |-> pending.since]
  /\ out' = Quiet("drag")
  /\ UNCHANGED << debouncedLive, dashVars, mounted, dimVars, markers, stored, pointer, effPoints, effHighlighted, zoomVars,
                  isDraggingRef, dragStartRef, tapVars, nextId >>

\* dragEnd as it would be if the release pixel were inverted as it comes
dragEndUnclamped ==
  /\ drag.on
  /\ LET mx      == drag.pos[1]
         my      == drag.pos[2]
         finalX  == invertX(currentScalesRef, mx)
         finalY  == invertY(currentScalesRef, my)
         np      == movePoint(drag.pts, drag.id, finalX, finalY)
         dx      == mx - dragStartRef.x
         dy      == my - dragStartRef.y
         isClick == dragStartRef.set /\ dx * dx + dy * dy < ClickDistance2
     IN  /\ Representable(np)
         /\ points' = IF mounted THEN handlePointsChange(np) ELSE points
         /\ dirty' = (dirty \/ mounted)
         \* onPointClick(d) = handlePointEdit(d)
         /\ editingPoint' = IF isClick /\ mounted THEN drag.id ELSE editingPoint
         /\ highlightedPoint' = IF isClick /\ mounted THEN drag.id ELSE highlightedPoint
         /\ out' = [Quiet("dragEnd") EXCEPT !.change = 1, !.kind = "commit",
                      !.click = IF isClick THEN 1 ELSE 0,
                      !.d2 = dx * dx + dy * dy, !.id = drag.id, !.gid = drag.gid]
  /\ isDraggingRef' = FALSE
  /\ dragStartRef' = NoStart
  \* d3.select(this).transition().duration(100).attr("r", 6)
  /\ markers' = IF drag.el THEN setRadius(markers, drag.id, PointRadius) ELSE markers
  \* d3-drag lets the click of a press without movement through, and the
  \* browser delivers it to the circle while it is in the document
  /\ drag' = [NoDrag EXCEPT !.click = IF ~drag.moved /\ drag.el /\ mounted THEN drag.id ELSE 0,
                            !.calls = out'.click]
  /\ pointer' = [pointer EXCEPT !.over = drag.id]
  /\ UNCHANGED << mounted, dimVars, stored, effPoints, effHighlighted, zoomVars, pending, debouncedLive,
                  tapVars, nextId, budget >>

\* drag.on("end", ...): the commit, then the click detection
dragEnd ==
  /\ drag.on
  /\ LET mx      == clamp(drag.pos[1], 0, innerWidth)
         my      == clamp(drag.pos[2], 0, innerHeight)
         finalX  == invertX(currentScalesRef, mx)
         finalY  == invertY(currentScalesRef, my)
         np      == movePoint(drag.pts, drag.id, finalX, finalY)
         dx      == mx - dragStartRef.x
         dy      == my - dragStartRef.y
         isClick == dragStartRef.set /\ dx * dx + dy * dy < ClickDistance2
     IN  /\ Representable(np)
         /\ points' = IF mounted THEN handlePointsChange(np) ELSE points
         /\ dirty' = (dirty \/ mounted)
         \* onPointClick(d) = handlePointEdit(d)
         /\ editingPoint' = IF isClick /\ mounted THEN drag.id ELSE editingPoint
         /\ highlightedPoint' = IF isClick /\ mounted THEN drag.id ELSE highlightedPoint
         /\ out' = [Quiet("dragEnd") EXCEPT !.change = 1, !.kind = "commit",
                      !.click = IF isClick THEN 1 ELSE 0,
                      !.d2 = dx * dx + dy * dy, !.id = drag.id, !.gid = drag.gid]
  /\ isDraggingRef' = FALSE
  /\ dragStartRef' = NoStart
  \* d3.select(this).transition().duration(100).attr("r", 6)
  /\ markers' = IF drag.el THEN setRadius(markers, drag.id, PointRadius) ELSE markers
  \* d3-drag lets the click of a press without movement through, and the
  \* browser delivers it to the circle while it is in the document
  /\ drag' = [NoDrag EXCEPT !.click = IF ~drag.moved /\ drag.el /\ mounted THEN drag.id ELSE 0,
                            !.calls = out'.click]
  \* the marker goes to the clamped pixel: the pointer is over it unless the
  \* release is further outside the plot rectangle than a marker's radius
  /\ pointer' = [pointer EXCEPT !.over =
                   IF dist2(drag.pos, << clamp(drag.pos[1], 0, innerWidth),
                                         clamp(drag.pos[2], 0, innerHeight) >>)
                        <= HighlightRadius * HighlightRadius
                     THEN drag.id ELSE 0]
  /\ UNCHANGED << mounted, dimVars, stored, effPoints, effHighlighted, zoomVars, pending, debouncedLive,
                  tapVars, nextId, budget >>

\* the trailing edge of debounce(..., 16): cb(prevPoints.map(...))
debouncedUpdate ==
  /\ pending.on /\ pending.left = 0
  /\ LET np == movePoint(pending.prev, pending.id, pending.x, pending.y)
     IN  /\ points' = IF mounted THEN handlePointsChange(np) ELSE points
         /\ dirty' = (dirty \/ mounted)
         /\ out' = [Quiet("debounced") EXCEPT !.change = 1, !.kind = "live",
                      !.id = pending.id, !.gid = pending.gid]
  /\ pending' = [NoPending EXCEPT !.since = 0]
  /\ UNCHANGED << debouncedLive, highlightedPoint, editingPoint, mounted, dimVars, markers, stored, pointer, effPoints,
                  effHighlighted, zoomVars, dragVars, tapVars, nextId, budget >>

\* time passes; a timer that is due fires before time passes it
Tick(dt) ==
  /\ \/ pending.on \/ pending.since < DebounceDelay
     \/ lastTapRef.age < DoubleTapWindow \/ dblDue.on
     \/ debouncedLive.on
  /\ pending.on => dt <= pending.left
  /\ debouncedLive.on => dt <= debouncedLive.left
  /\ debouncedLive' = [debouncedLive EXCEPT !.left = IF debouncedLive.on THEN @ - dt ELSE @]
  /\ pending' = [pending EXCEPT !.left = IF pending.on THEN @ - dt ELSE @,
                                !.waited = IF pending.on THEN Min(WaitCap, @ + dt) ELSE @,
                                !.since = Min(DebounceDelay, @ + dt)]
  /\ lastTapRef' = [lastTapRef EXCEPT !.age = Min(DoubleTapWindow, @ + dt)]
  /\ dblDue' = IF dt >= DoubleTapWindow THEN NoDbl ELSE dblDue
  /\ UNCHANGED << dashVars, mounted, dimVars, markers, stored, pointer, effPoints, effHighlighted, zoomVars,
                  dragVars, tapAdds, nextId, budget, out >>

(***************************************************************************)
(* The React commit: main effect, then the auto-pan effect                 *)
(***************************************************************************)
\* inView as it would be with innerWidth and innerHeight taken for each other
inViewSwapped(sx, sy) ==
  /\ sx >= ViewportPad /\ sx <= dimensions.innerHeight - ViewportPad
  /\ sy >= ViewportPad /\ sy <= dimensions.innerWidth - ViewportPad

\* const inView = sx >= pad && sx <= innerWidth - pad && sy >= pad && sy <= innerHeight - pad
inView(sx, sy) ==
  /\ sx >= ViewportPad /\ sx <= dimensions.innerWidth - ViewportPad
  /\ sy >= ViewportPad /\ sy <= dimensions.innerHeight - ViewportPad

\* centerTransform as it would be with the translation taken at k = 1
centerTransformUnscaled(kn, px0, py0) ==
  [kn |-> kn, tx |-> RoundDiv(dimensions.innerWidth - 2 * px0, 2),
              ty |-> RoundDiv(dimensions.innerHeight - 2 * py0, 2)]

\* d3.zoomIdentity.translate(innerWidth / 2 - k * px0, innerHeight / 2 - k * py0).scale(k)
centerTransform(kn, px0, py0) ==
  [kn |-> kn, tx |-> RoundDiv(dimensions.innerWidth - kn * px0, 2),
              ty |-> RoundDiv(dimensions.innerHeight - kn * py0, 2)]

\* the auto-pan effect decides to pan: a highlighted id, its point, not in view
autoPans(pts, hl, t) ==
  /\ hl # 0 /\ HasId(pts, hl)
  /\ LET p == pts[IndexOfId(pts, hl)]
     IN  ~inView(applyX(t, baseX(baseScales(dimensions, pts), p.x)),
                 applyY(t, baseY(baseScales(dimensions, pts), p.y)))

autoPanTarget(pts, hl, t) ==
  LET p == pts[IndexOfId(pts, hl)]
  IN  centerTransform(t.kn, baseX(baseScales(dimensions, pts), p.x),
                            baseY(baseScales(dimensions, pts), p.y))

\* A commit after a state change: the main effect rebuilds the SVG, captures
\* `points` in its handlers and draws with zoomTransformRef.current; the
\* auto-pan effect (deps: highlightedPoint, points, baseScales, dimensions) runs next.
render ==
  /\ mounted /\ dirty
  /\ dirty' = FALSE
  /\ effPoints' = points
  /\ effDimensions' = dimensions
  /\ effHighlighted' = highlightedPoint
  /\ currentScalesRef' = rescale(zoomTransformRef, baseScales(dimensions, points))
  /\ drawn' = rescale(zoomTransformRef, baseScales(dimensions, points))
  \* svg.selectAll("*").remove(), the join, and the first draw
  /\ markers' = drawMarkers(joinMarkers(points), highlightedPoint)
  \* the save effect of the dashboard: localStorage.setItem(storageKey, ...)
  /\ stored' = stringify(points)
  /\ drag' = [drag EXCEPT !.el = FALSE, !.click = 0, !.calls = 0]
  /\ IF autoPans(points, highlightedPoint, zoomTransformRef)
       THEN /\ zoomTransformRef' = autoPanTarget(points, highlightedPoint, zoomTransformRef)
            /\ anim' = [on |-> TRUE, from |-> zoomNode,
                        to |-> autoPanTarget(points, highlightedPoint, zoomTransformRef),
                        dom |-> baseScales(dimensions, points), stage |-> 0, stale |-> FALSE]
       ELSE /\ zoomTransformRef' = zoomTransformRef
            \* a transition in flight keeps the zoomed() of the effect that started it
            /\ anim' = IF anim.on THEN [anim EXCEPT !.stale = TRUE] ELSE anim
  /\ out' = [Quiet("render") EXCEPT !.hlChanged = (highlightedPoint # effHighlighted)]
  /\ pointer' = [pointer EXCEPT !.over = IF HasId(points, @) THEN @ ELSE 0]
  /\ UNCHANGED << points, highlightedPoint, editingPoint, mounted, size, zoomNode,
                  isDraggingRef, dragStartRef, pending, debouncedLive, tapVars, nextId, budget >>

\* zoomed(event) of the effect that owns the gesture, drawing with its base scales
zoomed(t, dom, live) ==
  /\ zoomTransformRef' = t
  /\ zoomNode' = t
  /\ currentScalesRef' = rescale(t, dom)
  /\ drawn' = IF live THEN rescale(t, dom) ELSE drawn
  /\ markers' = IF live THEN drawMarkers(markers, effHighlighted) ELSE markers

\* a frame of the auto-pan transition, half way
animFrame ==
  /\ mounted /\ anim.on /\ anim.stage = 0
  /\ zoomed([kn |-> anim.to.kn,
             tx |-> (anim.from.tx + anim.to.tx) \div 2,
             ty |-> (anim.from.ty + anim.to.ty) \div 2], anim.dom, ~anim.stale)
  /\ anim' = [anim EXCEPT !.stage = 1]
  /\ out' = Quiet("animFrame")
  /\ UNCHANGED << dashVars, mounted, dimVars, stored, pointer, effPoints, effHighlighted, dragVars,
                  pending, debouncedLive, tapVars, nextId, budget >>

\* the last frame of the transition: the target transform
animEnd ==
  /\ mounted /\ anim.on
  /\ zoomed(anim.to, anim.dom, ~anim.stale)
  /\ anim' = NoAnim
  /\ out' = Quiet("animEnd")
  /\ UNCHANGED << dashVars, mounted, dimVars, stored, pointer, effPoints, effHighlighted, dragVars,
                  pending, debouncedLive, tapVars, nextId, budget >>

(***************************************************************************)
(* Zoom and pan gestures (d3-zoom on the svg)                              *)
(***************************************************************************)
\* wheel as it would be if the gesture left a transition in flight running
wheelNoInterrupt(zoomIn, p) ==
  /\ Interactive /\ budget > 0
  /\ LET t   == zoomNode
         kn2 == clamp(IF zoomIn THEN t.kn * 2 ELSE t.kn \div 2, KnMin, KnMax)
         sx  == p[1] + marginLeft
         sy  == p[2] + marginTop
         t2  == constrain([kn |-> kn2,
                           tx |-> sx - RoundDiv((sx - t.tx) * kn2, t.kn),
                           ty |-> sy - RoundDiv((sy - t.ty) * kn2, t.kn)])
     IN  /\ kn2 # t.kn
         /\ kn2 <= 2 * MaxZoomIn
         /\ zoomed(t2, baseScales(effDimensions, effPoints), TRUE)
  /\ anim' = anim
  /\ budget' = budget - 1
  /\ dblDue' = NoDbl
  /\ out' = [Quiet("wheel") EXCEPT !.interrupted = anim.on]
  /\ UNCHANGED << dashVars, mounted, dimVars, stored, pointer, effPoints, effHighlighted, dragVars,
                  pending, debouncedLive, lastTapRef, tapAdds, nextId >>

\* wheeled: k doubles (zoomIn) or halves within scaleExtent, anchored at the
\* pointer in svg coordinates, then constrained; the gesture interrupts a transition
wheel(zoomIn, p) ==
  /\ Interactive /\ budget > 0
  /\ LET t   == zoomNode
         kn2 == clamp(IF zoomIn THEN t.kn * 2 ELSE t.kn \div 2, KnMin, KnMax)
         sx  == p[1] + marginLeft
         sy  == p[2] + marginTop
         t2  == constrain([kn |-> kn2,
                           tx |-> sx - RoundDiv((sx - t.tx) * kn2, t.kn),
                           ty |-> sy - RoundDiv((sy - t.ty) * kn2, t.kn)])
     IN  /\ kn2 # t.kn
         /\ kn2 <= 2 * MaxZoomIn
         /\ zoomed(t2, baseScales(effDimensions, effPoints), TRUE)
  /\ anim' = NoAnim
  /\ budget' = budget - 1
  /\ dblDue' = NoDbl
  /\ out' = [Quiet("wheel") EXCEPT !.interrupted = anim.on]
  /\ UNCHANGED << dashVars, mounted, dimVars, stored, pointer, effPoints, effHighlighted, dragVars,
                  pending, debouncedLive, lastTapRef, tapAdds, nextId >>

\* mousedowned / mousemoved on the background: translate by d, constrained
pan(d) ==
  /\ Interactive /\ budget > 0
  /\ zoomed(constrain([zoomNode EXCEPT !.tx = @ + d[1], !.ty = @ + d[2]]),
            baseScales(effDimensions, effPoints), TRUE)
  /\ anim' = NoAnim
  /\ budget' = budget - 1
  /\ dblDue' = NoDbl
  /\ out' = [Quiet("pan") EXCEPT !.interrupted = anim.on]
  /\ UNCHANGED << dashVars, mounted, dimVars, stored, pointer, effPoints, effHighlighted, dragVars,
                  pending, debouncedLive, lastTapRef, tapAdds, nextId >>

(***************************************************************************)
(* Adding a point: double click and double tap                             *)
(***************************************************************************)
\* the event lands on a marker: within its radius of 6
onMarker(px) ==
  \E i \in DOMAIN effPoints :
     LET m == markerAt(effPoints[i])
     IN  (px[1] - m[1]) * (px[1] - m[1]) + (px[2] - m[2]) * (px[2] - m[2]) <= 36

\* pixels a double click or a tap can land on: the background, or a marker
Targets == Backgrounds \cup { markerAt(effPoints[i]) : i \in DOMAIN effPoints }

\* addAtMouse as it would be if an add were coalesced into a redraw still to come
addAtMouseCoalesced(mx, my, op, now, rnd) ==
  LET cx == clamp(mx, 0, innerWidth)
      cy == clamp(my, 0, innerHeight)
      newPoint == [id |-> generateId(now, rnd), x |-> invertX(currentScalesRef, cx),
                                  y |-> invertY(currentScalesRef, cy)]
  IN  /\ Len(effPoints) < MaxPoints
      /\ Representable(Append(effPoints, newPoint))
      /\ points' = IF dirty THEN points ELSE handlePointsChange(Append(effPoints, newPoint))
      /\ dirty' = TRUE
      /\ nextId' = now + 1
      /\ out' = [Quiet(op) EXCEPT !.change = IF dirty THEN 0 ELSE 1, !.kind = "add",
                                  !.id = generateId(now, rnd), !.onPoint = onMarker(<< mx, my >>)]

\* addAtMouse(mx, my): clamp, invert through currentScalesRef, emit
\* [...points, newPoint]; the id is generated at the time `now` with the suffix rnd
addAtMouse(mx, my, op, now, rnd) ==
  LET cx == clamp(mx, 0, innerWidth)
      cy == clamp(my, 0, innerHeight)
      newPoint == [id |-> generateId(now, rnd), x |-> invertX(currentScalesRef, cx),
                                  y |-> invertY(currentScalesRef, cy)]
  IN  /\ Len(effPoints) < MaxPoints
      /\ Representable(Append(effPoints, newPoint))
      /\ points' = handlePointsChange(Append(effPoints, newPoint))
      /\ dirty' = TRUE
      /\ nextId' = now + 1
      /\ out' = [Quiet(op) EXCEPT !.change = 1, !.kind = "add", !.id = generateId(now, rnd),
                                  !.onPoint = onMarker(<< mx, my >>)]

\* svg.on("dblclick", handleDoubleClick), a double click of the mouse handled
\* at the time `now`: the millisecond of the previous add, or a later one
handleDoubleClickAt(px, now, rnd) ==
  /\ Interactive /\ budget > 0
  /\ px \in Targets
  /\ InPlot(px) \/ px \in Backgrounds
  /\ now \in { nextId - 1, nextId } /\ now >= FirstStamp
  /\ addAtMouse(px[1], px[2], "dblclick", now, rnd)
  /\ budget' = budget - 1
  /\ dblDue' = NoDbl
  /\ UNCHANGED << highlightedPoint, editingPoint, mounted, dimVars, markers, stored, pointer, effPoints,
                  effHighlighted, zoomVars, dragVars, pending, debouncedLive, lastTapRef, tapAdds >>

\* a double click in a millisecond of its own
handleDoubleClick(px) == handleDoubleClickAt(px, nextId, 0)

\* the dblclick event a browser dispatches after the second tap of a double tap
tapDoubleClick ==
  /\ Interactive /\ dblDue.on
  /\ addAtMouse(dblDue.x, dblDue.y, "tapDblclick", nextId, 0)
  /\ tapAdds' = tapAdds + 1
  /\ dblDue' = NoDbl
  /\ UNCHANGED << highlightedPoint, editingPoint, mounted, dimVars, markers, stored, pointer, effPoints,
                  effHighlighted, zoomVars, dragVars, pending, debouncedLive, lastTapRef, budget >>

\* svg.on("pointerdown", handlePointerDown) for pointerType touch or pen
handlePointerDown(px) ==
  /\ Interactive /\ budget > 0
  /\ InPlot(px) \/ px \in Backgrounds
  /\ budget' = budget - 1
  /\ LET dx == px[1] - lastTapRef.x
         dy == px[2] - lastTapRef.y
     IN  IF lastTapRef.age < DoubleTapWindow /\ dx * dx + dy * dy < DoubleTapDistance2
           THEN /\ addAtMouse(px[1], px[2], "doubleTap", nextId, 0)
                /\ lastTapRef' = NoTap
                /\ dblDue' = [on |-> TRUE, x |-> px[1], y |-> px[2],
                              onPoint |-> onMarker(px)]
                /\ tapAdds' = 1
           ELSE /\ lastTapRef' = [age |-> 0, x |-> px[1], y |-> px[2]]
                /\ dblDue' = NoDbl
                /\ tapAdds' = 0
                /\ out' = Quiet("tap")
                /\ UNCHANGED << points, dirty, nextId >>
  /\ UNCHANGED << highlightedPoint, editingPoint, mounted, dimVars, markers, stored, pointer, effPoints,
                  effHighlighted, zoomVars, dragVars, pending, debouncedLive >>

\* where a tap lands: a target, or near the previous tap
TapPixels ==
  Targets \cup
  (IF lastTapRef.age < DoubleTapWindow
     THEN { << lastTapRef.x + o[1], lastTapRef.y + o[2] >> : o \in TapOffsets }
     ELSE {})

(***************************************************************************)
(* The rest of the dashboard                                               *)
(***************************************************************************)
\* handlePointDelete(pointId), from the table; highlightedPoint is the value
\* of the render that created the callback
handlePointDelete(id) ==
  /\ mounted /\ editingPoint = 0 /\ budget > 0
  /\ HasId(points, id)
  /\ Representable(removePoint(points, id))
  /\ budget' = budget - 1
  /\ points' = removePoint(points, id)
  /\ highlightedPoint' = IF effHighlighted = id THEN 0 ELSE highlightedPoint
  /\ editingPoint' = IF editingPoint = id THEN 0 ELSE editingPoint
  /\ dirty' = TRUE
  /\ out' = Quiet("delete")
  /\ UNCHANGED << mounted, dimVars, markers, stored, pointer, effPoints, effHighlighted, zoomVars, dragVars,
                  pending, debouncedLive, tapVars, nextId >>

\* the "storage" listener: another tab has written the key; safeParse accepts
\* any array; setPoints(saved)
onStorage(saved) ==
  /\ mounted /\ budget > 0
  /\ saved # points
  /\ budget' = budget - 1
  /\ points' = saved
  /\ stored' = [has |-> TRUE, v |-> saved]
  /\ dirty' = TRUE
  /\ out' = Quiet("storage")
  /\ UNCHANGED << highlightedPoint, editingPoint, mounted, dimVars, markers, pointer, effPoints,
                  effHighlighted, zoomVars, dragVars, pending, debouncedLive, tapVars, nextId >>

\* handlePointEdit(point), from the edit button of a table row
handlePointEdit(id) ==
  /\ mounted /\ editingPoint = 0 /\ budget > 0
  /\ HasId(points, id)
  /\ budget' = budget - 1
  /\ editingPoint' = id
  /\ highlightedPoint' = id
  /\ dirty' = TRUE
  /\ out' = Quiet("edit")
  /\ UNCHANGED << points, mounted, dimVars, markers, stored, pointer, effPoints, effHighlighted, zoomVars,
                  dragVars, pending, debouncedLive, tapVars, nextId >>

\* handleDialogLiveChange(updated), the dialog's onLiveChange for the point it edits
handleDialogLiveChange(x, y) ==
  /\ mounted /\ editingPoint # 0 /\ budget > 0
  /\ Representable(movePoint(points, editingPoint, sanitizeNumber(x), sanitizeNumber(y)))
  /\ budget' = budget - 1
  /\ points' = movePoint(points, editingPoint, sanitizeNumber(x), sanitizeNumber(y))
  /\ highlightedPoint' = editingPoint
  /\ dirty' = TRUE
  /\ out' = [Quiet("dialogLive") EXCEPT !.id = editingPoint]
  /\ UNCHANGED << editingPoint, mounted, dimVars, markers, stored, pointer, effPoints, effHighlighted,
                  zoomVars, dragVars, pending, debouncedLive, tapVars, nextId >>

\* handlePointSave(updatedPoint), the dialog's onSave
handlePointSave(x, y) ==
  /\ mounted /\ editingPoint # 0 /\ budget > 0
  /\ Representable(movePoint(points, editingPoint, sanitizeNumber(x), sanitizeNumber(y)))
  /\ budget' = budget - 1
  /\ points' = movePoint(points, editingPoint, sanitizeNumber(x), sanitizeNumber(y))
  /\ dirty' = TRUE
  /\ out' = [Quiet("dialogSave") EXCEPT !.id = editingPoint]
  /\ UNCHANGED << highlightedPoint, editingPoint, mounted, dimVars, markers, stored, pointer, effPoints,
                  effHighlighted, zoomVars, dragVars, pending, debouncedLive, tapVars, nextId >>

\* handleEditDialogClose
handleEditDialogClose ==
  /\ mounted /\ editingPoint # 0
  /\ editingPoint' = 0
  /\ out' = Quiet("dialogClose")
  /\ UNCHANGED << points, highlightedPoint, dirty, mounted, dimVars, markers, stored, pointer, effPoints,
                  effHighlighted, zoomVars, dragVars, pending, debouncedLive, tapVars, nextId,
                  budget >>

\* handleChange(e) of the edit dialog with a valid form: pushLiveIfValid calls
\* debouncedLive({ ...point, x: nx, y: ny }), which restarts its timer
handleChange(x, y) ==
  /\ mounted /\ editingPoint # 0 /\ budget > 0
  /\ x # NaN /\ y # NaN
  /\ budget' = budget - 1
  /\ debouncedLive' = [on |-> TRUE, id |-> editingPoint, x |-> x, y |-> y, left |-> LiveDelay]
  /\ out' = Quiet("dialogChange")
  /\ UNCHANGED << dashVars, mounted, dimVars, markers, stored, pointer, effPoints, effHighlighted,
                  zoomVars, dragVars, pending, tapVars, nextId >>

\* the trailing edge of debouncedLive: onLiveChange(p), which is
\* handleDialogLiveChange(updated) of the dashboard
debouncedLiveEdge ==
  /\ debouncedLive.on /\ debouncedLive.left = 0
  /\ mounted
  /\ points' = movePoint(points, debouncedLive.id, sanitizeNumber(debouncedLive.x),
                         sanitizeNumber(debouncedLive.y))
  /\ highlightedPoint' = debouncedLive.id
  /\ dirty' = TRUE
  /\ debouncedLive' = NoLive
  /\ out' = [Quiet("dialogLiveEdge") EXCEPT !.id = debouncedLive.id,
               !.change = IF points' # points THEN 1 ELSE 0]
  /\ UNCHANGED << editingPoint, mounted, dimVars, markers, stored, pointer, effPoints,
                  effHighlighted, zoomVars, dragVars, pending, tapVars, nextId, budget >>

\* handleClearAll, the confirm dialog answered with OK
handleClearAll ==
  /\ mounted /\ budget > 0
  /\ budget' = budget - 1
  /\ points' = << >>
  /\ highlightedPoint' = 0
  /\ editingPoint' = 0
  /\ dirty' = TRUE
  /\ out' = Quiet("clearAll")
  /\ UNCHANGED << mounted, dimVars, markers, stored, pointer, effPoints, effHighlighted, zoomVars,
                  dragVars, pending, debouncedLive, tapVars, nextId >>

\* the page is reloaded: the dashboard is constructed again for the same user,
\* points from the item under storageKey, and its first commit saves them
reload ==
  /\ budget > 0
  /\ budget' = budget - 1
  /\ points' = loadPoints(stored)
  /\ stored' = stringify(loadPoints(stored))
  /\ highlightedPoint' = 0
  /\ editingPoint' = 0
  /\ dirty' = FALSE
  /\ mounted' = TRUE
  /\ effDimensions' = dimensions
  /\ effPoints' = loadPoints(stored)
  /\ effHighlighted' = 0
  /\ zoomTransformRef' = Identity
  /\ zoomNode' = Identity
  /\ anim' = NoAnim
  /\ currentScalesRef' = rescale(Identity, baseScales(dimensions, loadPoints(stored)))
  /\ drawn' = rescale(Identity, baseScales(dimensions, loadPoints(stored)))
  /\ markers' = drawMarkers(joinMarkers(loadPoints(stored)), 0)
  /\ pointer' = NoPointer
  /\ debouncedLive' = NoLive
  /\ isDraggingRef' = FALSE
  /\ dragStartRef' = NoStart
  /\ drag' = NoDrag
  /\ pending' = NoPending
  /\ lastTapRef' = NoTap
  /\ dblDue' = NoDbl
  /\ tapAdds' = 0
  /\ out' = [Quiet("reload") EXCEPT !.change = IF loadPoints(stored) = points THEN 0 ELSE 1,
                                    !.kind = IF dirty THEN "uncommitted" ELSE "none"]
  /\ UNCHANGED << size, nextId >>

\* the owner renders the graph with another width and height: the
\* dimensions, the base scales and both effects follow at the commit
resize(sz) ==
  /\ mounted /\ budget > 0
  /\ sz # size
  /\ budget' = budget - 1
  /\ size' = sz
  /\ dirty' = TRUE
  /\ out' = Quiet("resize")
  /\ UNCHANGED << points, highlightedPoint, editingPoint, mounted, effDimensions,
                  effPoints, effHighlighted, markers, stored, pointer, zoomVars, dragVars, pending, debouncedLive, tapVars,
                  nextId >>

\* the dashboard is unmounted (logout): the main effect's cleanup removes the
\* zoom, dblclick and pointerdown listeners and the tooltip
unmount ==
  /\ mounted
  /\ mounted' = FALSE
  /\ dblDue' = NoDbl
  /\ markers' = << >>
  /\ out' = Quiet("unmount")
  /\ pointer' = NoPointer
  \* the dialog's cleanup: debouncedLive.cancel()
  /\ debouncedLive' = NoLive
  /\ UNCHANGED << dashVars, dimVars, stored, effPoints, effHighlighted, zoomVars, dragVars,
                  pending, lastTapRef, tapAdds, nextId, budget >>

(***************************************************************************)
(* The Recoil graph (src/unnamed/part_006): the same collection behind the *)
(* usePoints hook, scales on the bounding box of the points, no zoom       *)
(***************************************************************************)
BoundingBoxPad == 10                 \* Math.min(...xValues) - 10, atoms.js

\* pointsBoundingBoxSelector, as the domains of the two scales, with their ranges
pointsBoundingBoxSelector(pts) ==
  IF Len(pts) = 0
    THEN [x |-> << 0, DefaultDomainMax * Unit >>, y |-> << 0, DefaultDomainMax * Unit >>,
          w |-> innerWidth, h |-> innerHeight]
    ELSE [x |-> << SetMin(XS(pts)) - BoundingBoxPad * Unit,
                   SetMax(XS(pts)) + BoundingBoxPad * Unit >>,
          y |-> << SetMin(YS(pts)) - BoundingBoxPad * Unit,
                   SetMax(YS(pts)) + BoundingBoxPad * Unit >>,
          w |-> innerWidth, h |-> innerHeight]

\* const scales = useMemo(...): linear over the bounding box, not niced, no transform
recoilScales(pts) == rescale(Identity, pointsBoundingBoxSelector(pts))

\* .attr("cx", (d) => xScale(d.x)), .attr("cy", (d) => yScale(d.y))
recoilMarkerAt(p) == << scaleX(recoilScales(effPoints), p.x),
                        scaleY(recoilScales(effPoints), p.y) >>

\* pixels of a double click, relative to the main group; the last two outside the plot
RecoilPixels == { << 360, 220 >>, << 100, 400 >>, << -20, 470 >>, << 740, 100 >> }

\* usePoints.addPoint(x, y): coordinates rounded to two decimals, the
\* subdivision of the fixed-point numbers; setPoints(prev => [...prev, newPoint])
addPoint(pts, id, x, y) == Append(pts, [id |-> id, x |-> x, y |-> y])

\* usePoints.updatePoint(id, x, y): setPoints(prev => prev.map(...))
updatePoint(pts, id, x, y) == movePoint(pts, id, x, y)

\* handleDoubleClick of the Recoil graph: the pointer is inverted as it comes,
\* and the point is added only for a pointer inside the plot rectangle
recoilDoubleClick(px) ==
  /\ Interactive /\ budget > 0 /\ ~drag.on
  /\ Len(points) < MaxPoints
  /\ budget' = budget - 1
  /\ LET x == invertX(recoilScales(effPoints), px[1])
         y == invertY(recoilScales(effPoints), px[2])
     IN  IF /\ px[1] >= 0 /\ px[1] <= innerWidth
            /\ px[2] >= 0 /\ px[2] <= innerHeight
           THEN /\ points' = addPoint(points, generateId(nextId, 0), x, y)
                /\ dirty' = TRUE
                /\ nextId' = nextId + 1
                /\ out' = [Quiet("recoilDblclick") EXCEPT !.change = 1, !.kind = "add",
                                                         !.id = generateId(nextId, 0)]
           ELSE /\ UNCHANGED << points, dirty, nextId >>
                /\ out' = [Quiet("recoilDblclick") EXCEPT !.kind = "rejected"]
  /\ UNCHANGED << highlightedPoint, editingPoint, mounted, dimVars, markers, stored, pointer, effPoints,
                  effHighlighted, zoomVars, dragVars, pending, debouncedLive, tapVars >>

\* drag.on("start", ...) of the Recoil graph
recoilDragStart(i) ==
  /\ Interactive /\ budget > 0 /\ ~drag.on
  /\ i \in DOMAIN effPoints
  /\ budget' = budget - 1
  /\ isDraggingRef' = TRUE
  /\ drag' = [on |-> TRUE, id |-> effPoints[i].id, start |-> recoilMarkerAt(effPoints[i]),
              pos |-> recoilMarkerAt(effPoints[i]), pts |-> effPoints, gid |-> budget, el |-> TRUE,
              moved |-> FALSE, far |-> FALSE, click |-> 0, calls |-> 0]
  /\ out' = Quiet("recoilDragStart")
  /\ UNCHANGED << dashVars, mounted, dimVars, markers, stored, pointer, effPoints, effHighlighted, zoomVars,
                  dragStartRef, pending, debouncedLive, tapVars, nextId >>

\* drag.on("drag", ...) of the Recoil graph: debouncedUpdate(d.id, newX, newY)
\* with the pointer inverted as it comes
recoilDrag(delta) ==
  /\ drag.on /\ budget > 0
  /\ budget' = budget - 1
  /\ LET pos == << drag.start[1] + delta[1], drag.start[2] + delta[2] >>
     IN  /\ pos # drag.pos
         /\ drag' = [drag EXCEPT !.pos = pos, !.moved = TRUE,
                                  !.far = @ \/ dist2(pos, drag.start) >= ClickDistance2]
         /\ pending' = [on |-> TRUE, id |-> drag.id,
                        x |-> invertX(recoilScales(drag.pts), pos[1]),
                        y |-> invertY(recoilScales(drag.pts), pos[2]),
                        prev |-> << >>, left |-> DebounceDelay, gid |-> drag.gid,
                        waited |-> IF pending.on THEN pending.waited ELSE 0,
                        since |-> pending.since]
  /\ out' = Quiet("recoilDrag")
  /\ UNCHANGED << debouncedLive, dashVars, mounted, dimVars, markers, stored, pointer, effPoints, effHighlighted, zoomVars,
                  isDraggingRef, dragStartRef, tapVars, nextId >>

\* drag.on("end", ...) of the Recoil graph: updatePoint with the release pixel;
\* a release without movement is followed by the click that opens the dialog
recoilDragEnd ==
  /\ drag.on
  /\ isDraggingRef' = FALSE
  /\ points' = updatePoint(points, drag.id, invertX(recoilScales(drag.pts), drag.pos[1]),
                                            invertY(recoilScales(drag.pts), drag.pos[2]))
  /\ dirty' = TRUE
  /\ editingPoint' = IF drag.pos = drag.start THEN drag.id ELSE editingPoint
  /\ drag' = NoDrag
  /\ out' = [Quiet("recoilDragEnd") EXCEPT !.change = 1, !.kind = "commit",
                                           !.id = drag.id, !.gid = drag.gid]
  /\ UNCHANGED << highlightedPoint, mounted, dimVars, markers, stored, pointer, effPoints, effHighlighted, zoomVars,
                  dragStartRef, pending, debouncedLive, tapVars, nextId, budget >>

\* the trailing edge of debounce((id, x, y) => updatePoint(id, x, y), 16)
recoilDebounced ==
  /\ mounted /\ pending.on /\ pending.left = 0
  /\ points' = updatePoint(points, pending.id, pending.x, pending.y)
  /\ dirty' = TRUE
  /\ pending' = [NoPending EXCEPT !.since = 0]
  /\ out' = [Quiet("recoilDebounced") EXCEPT !.change = 1, !.kind = "live",
                                             !.id = pending.id, !.gid = pending.gid]
  /\ UNCHANGED << debouncedLive, highlightedPoint, editingPoint, mounted, dimVars, markers, stored, pointer, effPoints,
                  effHighlighted, zoomVars, dragVars, tapVars, nextId, budget >>

\* The commit of the Recoil graph.  Its effect returns before it redraws while
\* a drag is in progress, and when the last redraw is less than 16 ms old
\* (throttled); the handlers of the previous redraw then stay in place.
recoilRender(throttled) ==
  /\ mounted /\ dirty
  /\ dirty' = FALSE
  /\ effPoints' = IF isDraggingRef \/ throttled THEN effPoints ELSE points
  /\ effDimensions' = dimensions
  /\ effHighlighted' = highlightedPoint
  /\ out' = Quiet("recoilRender")
  /\ UNCHANGED << points, highlightedPoint, editingPoint, mounted, size, markers, stored, pointer, zoomVars,
                  dragVars, pending, debouncedLive, tapVars, nextId, budget >>

(***************************************************************************)
(* The program under four environments: a mouse on the markers, a touch    *)
(* screen, the table beside a zoomed graph, and a container that changes   *)
(* size; and the Recoil graph                                              *)
(***************************************************************************)
NextMouse ==
  \/ \E i \in 1 .. MaxPoints : mouseover(i)
  \/ \E i \in 1 .. MaxPoints : mouseout(i)
  \/ \E i \in 1 .. MaxPoints : dragStart(i)
  \/ \E d \in Deltas : dragMove(d)
  \/ dragEnd
  \/ debouncedUpdate
  \/ \E dt \in Ticks : Tick(dt)
  \/ render
  \/ \E px \in Targets : handleDoubleClick(px)
  \/ handleEditDialogClose
  \/ unmount

NextTouch ==
  \/ \E px \in TapPixels : handlePointerDown(px)
  \/ tapDoubleClick
  \/ \E dt \in Ticks : Tick(dt)
  \/ render
  \/ \E z \in BOOLEAN, p \in Backgrounds : wheel(z, p)

NextPan ==
  \/ \E h \in 0 .. nextId : handlePointHover(h)
  \/ render
  \/ animFrame
  \/ animEnd
  \/ \E z \in BOOLEAN, p \in Backgrounds : wheel(z, p)
  \/ \E d \in PanDeltas : pan(d)
  \/ \E px \in Targets : handleDoubleClick(px)
  \/ \E id \in 1 .. nextId : handlePointDelete(id)

NextReload ==
  \/ \E px \in Backgrounds : handleDoubleClick(px)
  \/ \E i \in 1 .. MaxPoints : dragStart(i)
  \/ \E d \in CornerDeltas : dragMove(d)
  \/ dragEnd
  \/ \E id \in 1 .. nextId : handlePointEdit(id)
  \/ \E x \in DialogValues, y \in DialogValues : handlePointSave(x, y)
  \/ handleEditDialogClose
  \/ \E id \in 1 .. nextId : handlePointDelete(id)
  \/ handleClearAll
  \/ render
  \/ reload

NextClick ==
  \/ \E i \in 1 .. MaxPoints : dragStart(i)
  \/ \E d \in Deltas : dragMove(d)
  \/ dragEnd
  \/ markerClick
  \/ debouncedUpdate
  \/ \E dt \in Ticks : Tick(dt)
  \/ render
  \/ handleEditDialogClose

NextDrag ==
  \/ \E i \in 1 .. MaxPoints : dragStart(i)
  \/ \E d \in Deltas : dragMove(d)
  \/ dragEnd
  \/ debouncedUpdate
  \/ \E dt \in FrameTicks : Tick(dt)
  \/ render

NextMarkers ==
  \/ \E i \in 1 .. MaxPoints : dragStart(i)
  \/ \E d \in Deltas : dragMove(d)
  \/ dragEnd
  \/ debouncedUpdate
  \/ \E dt \in Ticks : Tick(dt)
  \/ render
  \/ handleEditDialogClose
  \/ \E d \in PanDeltas : pan(d)

NextIds ==
  \/ \E px \in Backgrounds, now \in { nextId - 1, nextId }, rnd \in RandomSuffixes :
       handleDoubleClickAt(px, now, rnd)
  \/ render
  \/ \E now \in 1 .. nextId, rnd \in RandomSuffixes : handlePointDelete(generateId(now, rnd))

NextDomains ==
  \/ \E c \in Snapshots : onStorage(snapshotPoints(c))
  \/ render

NextStorage ==
  \/ \E saved \in StoredCollections : onStorage(saved)
  \/ \E id \in 1 .. nextId : handlePointEdit(id)
  \/ \E x \in DialogValues, y \in DialogValues : handleDialogLiveChange(x, y)
  \/ \E x \in DialogValues, y \in DialogValues : handlePointSave(x, y)
  \/ handleEditDialogClose
  \/ \E px \in Backgrounds : handleDoubleClick(px)
  \/ render

NextSized ==
  \/ \E px \in Backgrounds : handleDoubleClick(px)
  \/ render
  \/ \E i \in 1 .. MaxPoints : dragStart(i)
  \/ \E d \in CornerDeltas : dragMove(d)
  \/ dragEnd
  \/ debouncedUpdate
  \/ \E dt \in Ticks : Tick(dt)

NextResize ==
  \/ \E sz \in Sizes : resize(sz)
  \/ render
  \/ \E z \in BOOLEAN, p \in Backgrounds : wheel(z, p)
  \/ \E d \in PanDeltas : pan(d)
  \/ \E h \in 0 .. nextId : handlePointHover(h)
  \/ animFrame
  \/ animEnd

NextRecoil ==
  \/ \E px \in RecoilPixels : recoilDoubleClick(px)
  \/ \E i \in 1 .. MaxPoints : recoilDragStart(i)
  \/ \E d \in Deltas : recoilDrag(d)
  \/ recoilDragEnd
  \/ recoilDebounced
  \/ \E dt \in Ticks : Tick(dt)
  \/ \E throttled \in BOOLEAN : recoilRender(throttled)

SpecMouse == Init /\ [][NextMouse]_vars
SpecTouch == Init /\ [][NextTouch]_vars
SpecPan == Init /\ [][NextPan]_vars
SpecReload == Init /\ [][NextReload]_vars
SpecClick == Init /\ [][NextClick]_vars
SpecDrag == Init /\ [][NextDrag]_vars
SpecMarkers == Init /\ [][NextMarkers]_vars
SpecIds == Init /\ [][NextIds]_vars
SpecDomains == Init /\ [][NextDomains]_vars
SpecStorage == Init /\ [][NextStorage]_vars
SpecSized == InitSized /\ [][NextSized]_vars
SpecResize == Init /\ [][NextResize]_vars
SpecRecoil == Init /\ [][NextRecoil]_vars

\* the program under every input
Next == NextMouse \/ NextTouch \/ NextPan
Spec == Init /\ [][Next]_vars

TypeOK ==
  /\ Representable(points)
  /\ highlightedPoint \in 0 .. nextId
  /\ budget \in 0 .. MaxGestures
  /\ Len(points) <= MaxPoints
(***************************************************************************)
(* Properties: dragging a marker                                           *)
(***************************************************************************)
\* C1: a press and release on a marker whose pointer movement stays below the
\* drag threshold (squared distance < 9) emits a select intent and no move
\* intent; at or above the threshold it emits a move commit and no select intent.
C1_ClickOrMove ==
  out.op = "dragEnd" =>
    IF out.d2 < DRAG_CLICK_THRESHOLD
      THEN out.click = 1 /\ out.change = 0
      ELSE out.click = 0 /\ out.change = 1

\* C2: no rate-limited live update of a drag gesture is delivered after the
\* commit of that gesture: when a live update is delivered, its gesture is
\* still in progress.
C2_NoLiveAfterCommit ==
  out.op = "debounced" => drag.on /\ drag.gid = out.gid

\* C3: no pending live update is emitted after the graph is torn down, or
\* after a drag of a different point id has begun.
C3_LiveCancelled ==
  out.op = "debounced" => mounted /\ (drag.on => drag.id = out.id)

\* C4: every double click that adds and every release of a drag reaches the
\* owner of the collection as an onPointsChange emission, also when an
\* earlier emission has not been redrawn yet: the handler calls onPointsChange
\* once and the collection then holds the added or committed point.
C4_EmissionsNotDropped ==
  out.op \in {"dragEnd", "dblclick"} =>
    /\ out.change = 1
    /\ mounted => HasId(points, out.id)

\* an add emitted while the previous add is still waiting for its redraw
C4_Witness ==
  /\ out.op = "dblclick" /\ out.change = 1
  /\ out.id > 3 /\ ~HasId(effPoints, out.id - 1)

\* C5: while a drag is in progress, entering or leaving a marker emits no
\* hover: neither onPointHover(id) nor onPointHover(null).
C5_HoverSuppressed ==
  (out.op \in {"mouseover", "mouseout"} /\ drag.on) => out.hover = 0

\* the pointer has entered a marker during a drag
C5_Witness ==
  out.op = "mouseover" /\ drag.on /\ isDraggingRef /\ out.hover = 0

(***************************************************************************)
(* Properties: adding a point                                              *)
(***************************************************************************)
\* C6: a double click or a qualifying double tap that lands on the marker of
\* an existing point emits no add-intent: an add-intent is emitted only for
\* the plot background.
C6_NoAddOnMarker ==
  out.kind = "add" => ~out.onPoint

\* C7: two touch taps less than 300 ms and less than 64 squared pixels apart
\* produce exactly one add-intent, counting the pointerdown handler and the
\* dblclick handler together.
C7_OneAddPerDoubleTap ==
  out.op \in {"doubleTap", "tapDblclick"} => tapAdds = 1

(***************************************************************************)
(* Properties: the zoom transform and the auto-pan                         *)
(***************************************************************************)
\* the transform t respects the scale extent and the pan extent of d3-zoom
WithinExtents(t) == t.kn \in KnMin .. KnMax /\ constrain(t) = t

\* C8: in every reachable state the transform has kMin <= k <= kMax and a
\* translation that keeps the viewport inside the pan extent
\* [0,0]-[innerWidth,innerHeight], also for the target and the intermediate
\* transforms of an auto-pan.
C8_TransformWithinExtents ==
  WithinExtents(zoomTransformRef) /\ WithinExtents(zoomNode)

\* C9: a commit in which the highlighted id has not changed leaves the
\* transform (k, tx, ty) unchanged and starts no auto-pan, whatever happened
\* to the point collection.
C9_PanOnlyOnHighlightChange ==
  [][(render /\ highlightedPoint = effHighlighted) =>
       (zoomTransformRef' = zoomTransformRef /\ (anim'.on => anim.on))]_vars

\* the screen position of the point hl under the base scales of pts and the
\* transform t lies inside the viewport shrunk by 20 px on each side
InPaddedViewport(pts, hl, t) ==
  LET p  == pts[IndexOfId(pts, hl)]
      sx == applyX(t, baseX(baseScales(dimensions, pts), p.x))
      sy == applyY(t, baseY(baseScales(dimensions, pts), p.y))
  IN  /\ sx \in 20 .. innerWidth - 20
      /\ sy \in 20 .. innerHeight - 20

\* C10: highlighting a point whose screen position lies inside the viewport
\* shrunk by 20 px on each side changes no transform and starts no animation.
C10_NoPanInsidePaddedViewport ==
  [][(/\ render
      /\ highlightedPoint # effHighlighted
      /\ HasId(points, highlightedPoint)
      /\ InPaddedViewport(points, highlightedPoint, zoomTransformRef))
     => (/\ zoomTransformRef' = zoomTransformRef
         /\ zoomNode' = zoomNode
         /\ anim'.on => anim.on)]_vars

\* a commit has highlighted a point inside the padded viewport of a zoomed graph
C10_Witness ==
  /\ out.op = "render" /\ out.hlChanged
  /\ HasId(effPoints, effHighlighted)
  /\ zoomTransformRef.kn > 2
  /\ InPaddedViewport(effPoints, effHighlighted, zoomTransformRef)
  /\ ~anim.on

\* C11: an auto-pan that runs to its end leaves a transform with the k it
\* started from, under which the highlighted point is drawn within 1 px of
\* the viewport center (innerWidth / 2, innerHeight / 2).
C11_AutoPanCentres ==
  [][(animEnd /\ ~anim.stale /\ HasId(effPoints, effHighlighted)) =>
       LET p == effPoints[IndexOfId(effPoints, effHighlighted)]
           sx == scaleX(currentScalesRef', p.x)
           sy == scaleY(currentScalesRef', p.y)
       IN  /\ zoomNode'.kn = anim.from.kn
           /\ zoomTransformRef' = zoomNode'
           /\ 2 * sx \in innerWidth - 2 .. innerWidth + 2
           /\ 2 * sy \in innerHeight - 2 .. innerHeight + 2]_vars

\* an auto-pan of a zoomed graph has ended with the highlighted point at the center
C11_Witness ==
  /\ out.op = "animEnd" /\ HasId(effPoints, effHighlighted)
  /\ zoomNode.kn > 2 /\ zoomNode = zoomTransformRef
  /\ drawn = currentScalesRef
  /\ 2 * markerAt(effPoints[IndexOfId(effPoints, effHighlighted)])[1]
        \in innerWidth - 2 .. innerWidth + 2

InPlotRange(cs, x, y) ==
  /\ x \in invertX(cs, 0) .. invertX(cs, innerWidth)
  /\ y \in invertY(cs, innerHeight) .. invertY(cs, 0)

\* The zoom component, for C13: a pixel is clamped to the plot rectangle
\* [0, innerWidth] x [0, innerHeight] before it is inverted: the coordinates of
\* a drag move, of a drag end and of an add lie in the data range of the plot
\* rectangle, the boundary for a pointer outside it, and the operation is
\* carried out.
C13_PixelsClamped ==
  [][/\ (out'.op = "drag" /\ pending' # pending) =>
          InPlotRange(currentScalesRef', pending'.x, pending'.y)
     /\ (out'.kind \in {"add", "commit"} /\ mounted' /\ points' # points) =>
          InPlotRange(currentScalesRef', points'[IndexOfId(points', out'.id)].x,
                                         points'[IndexOfId(points', out'.id)].y)]_vars

\* a drag released far outside the plot has committed the corner of the plot
C13_Witness ==
  /\ out.op = "dragEnd" /\ out.change = 1 /\ mounted
  /\ out.d2 > innerWidth
  /\ points[IndexOfId(points, out.id)].x = invertX(currentScalesRef, 0)
  /\ points[IndexOfId(points, out.id)].y = invertY(currentScalesRef, innerHeight)

\* C13: a pointer position outside the plot rectangle is clamped, the
\* operation is not rejected: every double click on the graph adds a point,
\* for a pointer outside the plot the point at the boundary.
C13_AddNotRejected ==
  out.op = "recoilDblclick" =>
    /\ out.change = 1
    /\ InPlotRange(recoilScales(effPoints), points[IndexOfId(points, out.id)].x,
                                            points[IndexOfId(points, out.id)].y)

\* C14: whenever a pixel can be inverted or a marker is drawn, the scale in
\* use is the base scale of the current point snapshot composed with the
\* current transform: the scale an inversion reads (currentScalesRef) is the
\* one the markers on screen were placed with, its base scale is that of the
\* snapshot of the last commit, and its transform is the one of the zoom
\* (on the node, or the one the component holds).
C14_ScalesCurrent ==
  Interactive =>
    /\ currentScalesRef = drawn
    /\ currentScalesRef.dom = baseScales(effDimensions, effPoints)
    /\ currentScalesRef.t \in { zoomNode, zoomTransformRef }

(***************************************************************************)
(* Properties: resizing                                                    *)
(***************************************************************************)
\* C15: the commit of a resize recomputes the viewport and the base scales,
\* leaves k unchanged, and draws the data point that was at the center of the
\* viewport before the resize at the center of the new viewport (within 2 px).
C15_ResizeKeepsCentre ==
  [][(render /\ dimensions # effDimensions) =>
       LET cx == invertX(currentScalesRef, innerWidth \div 2)
           cy == invertY(currentScalesRef, innerHeight \div 2)
       IN  /\ effDimensions' = dimensions
           /\ currentScalesRef'.dom = baseScales(dimensions, points)
           /\ currentScalesRef'.t.kn = currentScalesRef.t.kn
           /\ 2 * scaleX(currentScalesRef', cx) - dimensions.innerWidth \in -4 .. 4
           /\ 2 * scaleY(currentScalesRef', cy) - dimensions.innerHeight \in -4 .. 4]_vars

(***************************************************************************)
(* Properties: zooming                                                     *)
(***************************************************************************)
\* C16: after a wheel gesture at a pixel p of the plot rectangle, the data
\* value that was under p before the gesture is still under p: it is drawn
\* within 2 px of p.
C16_WheelKeepsPointer ==
  [][\A z \in BOOLEAN, p \in Backgrounds :
       (wheel(z, p) /\ InPlot(p)) =>
         LET x == invertX(currentScalesRef, p[1])
             y == invertY(currentScalesRef, p[2])
         IN  /\ scaleX(currentScalesRef', x) - p[1] \in -2 .. 2
             /\ scaleY(currentScalesRef', y) - p[2] \in -2 .. 2]_vars

C18_PointsFinite ==
  /\ \A i \in DOMAIN points : points[i].x # NaN /\ points[i].y # NaN
  /\ \A i \in DOMAIN effPoints : effPoints[i].x # NaN /\ effPoints[i].y # NaN

\* C19: no two points of the collection share an id: an id generated by an
\* add differs from the ids generated before it.
C19_IdsUnique ==
  \A i \in DOMAIN points : \A j \in DOMAIN points : points[i].id = points[j].id => i = j

\* C20: the base scales of the drawn snapshot have, on each axis, a domain
\* with finite ends and min < max, and an axis without a finite extent has
\* the default domain [0, 100].
FiniteDomain(d) == d[1] # NaN /\ d[2] # NaN /\ d[1] < d[2]
C20_DomainsSafe ==
  Interactive =>
    /\ FiniteDomain(currentScalesRef.dom.x) /\ FiniteDomain(currentScalesRef.dom.y)
    /\ XS(effPoints) = {} => currentScalesRef.dom.x = << 0, DefaultDomainMax * Unit >>
    /\ YS(effPoints) = {} => currentScalesRef.dom.y = << 0, DefaultDomainMax * Unit >>
\* the part of C20 that holds: every snapshot with a finite value on each
\* axis, a single point and points sharing one x or one y included, is drawn
\* on finite domains with min < max
C20_FiniteExtents ==
  Interactive /\ XS(effPoints) # {} /\ YS(effPoints) # {} =>
    FiniteDomain(currentScalesRef.dom.x) /\ FiniteDomain(currentScalesRef.dom.y)
\* a single point is drawn on its padded extent, not on the default domain
C20_SinglePointPadded ==
  /\ Interactive /\ Len(effPoints) = 1 /\ effPoints[1].x = 10 * Unit
  /\ currentScalesRef.dom.x = << 5 * Unit, 15 * Unit >>

\* the marker of the highlighted id has the highlight weight and is last in
\* paint order, and every other marker is dimmed
HighlightShown(ms, h) ==
  /\ Len(ms) > 0 /\ ms[Len(ms)].id = h
  /\ \A i \in DOMAIN ms :
       IF ms[i].id = h THEN ms[i].r = HighlightRadius /\ ms[i].fill /\ ~ms[i].dim
                       ELSE ms[i].dim /\ ~ms[i].fill

\* C21: in every rendered state (no state update is waiting for a commit) in
\* which the highlighted id names an existing point, the marker of that point
\* has radius 8 and the highlight colour and is last in paint order, and
\* every other marker is dimmed.
C21_HighlightOnTop ==
  (mounted /\ ~dirty /\ HasId(points, highlightedPoint))
    => HighlightShown(markers, highlightedPoint)
\* the part of C21 that holds: every commit leaves the markers so
C21_CommitHighlights ==
  [][(render /\ HasId(points, highlightedPoint))
       => HighlightShown(markers', highlightedPoint)]_vars

(***************************************************************************)
(* Properties: the rate of the live updates                                *)
(***************************************************************************)
\* C22: during a drag, a live emission comes at least 16 ms after the live
\* emission before it, and it carries the coordinates of the most recent
\* drag move: the moved point of the emitted collection has them, and while
\* the scales of the gesture are those of its start they are the inversion of
\* the pixel the pointer was last moved to.
C22_LiveCoalesced ==
  [][(debouncedUpdate /\ drag.on) =>
       /\ pending.since >= DebounceDelay
       /\ HasId(pending.prev, pending.id) =>
            /\ points'[IndexOfId(points', pending.id)].x = pending.x
            /\ points'[IndexOfId(points', pending.id)].y = pending.y
       /\ (drag.el /\ pending.gid = drag.gid) =>
            /\ pending.x = invertX(currentScalesRef, clamp(drag.pos[1], 0, innerWidth))
            /\ pending.y = invertY(currentScalesRef, clamp(drag.pos[2], 0, innerHeight))]_vars
\* a second live emission of one drag: the first one has been committed
C22_Witness ==
  /\ out.op = "debounced" /\ drag.on /\ drag.gid = out.gid
  /\ effPoints # drag.pts

(***************************************************************************)
(* Properties: the select intent                                           *)
(***************************************************************************)
\* C23: a press and release on a marker without a drag calls onPointClick
\* once, the call of the drag-end handler and the call of the click handler of
\* the marker counted together.
C23_OneIntent == drag.calls <= 1
\* the case that holds: once the pointer has moved d3-drag keeps the click
\* from the marker, and the call of the drag-end handler is the only one
C23_MovedOnce == (out.op = "dragEnd" /\ out.d2 > 0) => drag.click = 0

C25_DraggingCommits ==
  [][(dragEnd /\ drag.far) => (out'.click = 0 /\ out'.change = 1)]_vars
\* C25, before the threshold: a move of a gesture that has not been as far
\* from the press as the threshold schedules no live update.
C25_NoLiveBeforeThreshold ==
  [][\A d \in Deltas : (dragMove(d) /\ ~drag'.far) => pending' = pending]_vars
\* C25: both parts
C25_GestureStates ==
  [][/\ (dragEnd /\ drag.far) => (out'.click = 0 /\ out'.change = 1)
     /\ \A d \in Deltas : (dragMove(d) /\ ~drag'.far) => ~pending'.on]_vars

(***************************************************************************)
(* Properties: the delay of the live updates                               *)
(***************************************************************************)
\* C26: while a drag is in progress every drag move is followed by a live
\* emission within the delay of the debounce: no update waits longer, also
\* when further moves arrive less than the delay apart.
C26_LiveWithinDelay ==
  (drag.on /\ pending.on) => pending.waited <= DebounceDelay
\* C26, supporting: a pending update never waits longer than the delay
\* after the LAST move
C26_TrailingWithinDelay ==
  pending.on => pending.left >= 0

(***************************************************************************)
(* The hover of the graph: mouseover, mouseout and a drag on a marker      *)
(***************************************************************************)
NextHover ==
  \/ \E i \in 1 .. MaxPoints : mouseover(i)
  \/ \E i \in 1 .. MaxPoints : mouseout(i)
  \/ \E i \in 1 .. MaxPoints : dragStart(i)
  \/ \E d \in Deltas : dragMove(d)
  \/ dragEnd
  \/ debouncedUpdate
  \/ \E dt \in Ticks : Tick(dt)
  \/ render

SpecHover == Init /\ [][NextHover]_vars

\* C27: once no drag is in progress and the pointer is over no marker, the
\* last hover value the graph emitted is none.
C27_HoverCleared ==
  (~drag.on /\ pointer.over = 0) => pointer.hover = 0
\* C27, supporting: outside a drag, the pointer leaving a marker clears the hover
C27_LeaveClears ==
  [][\A i \in 1 .. MaxPoints : (mouseout(i) /\ ~isDraggingRef) => pointer'.hover = 0]_vars

(***************************************************************************)
(* A drag while another tab writes the collection                          *)
(***************************************************************************)
NextSync ==
  \/ \E i \in 1 .. MaxPoints : dragStart(i)
  \/ \E d \in Deltas : dragMove(d)
  \/ dragEnd
  \/ debouncedUpdate
  \/ \E dt \in FrameTicks : Tick(dt)
  \/ render
  \/ \E saved \in SyncedCollections : onStorage(saved)

SpecSync == Init /\ [][NextSync]_vars

\* the points with this id, as a set
WithId(pts, id) == { pts[i] : i \in { j \in DOMAIN pts : pts[j].id = id } }
\* new differs from old in the point id only, which it does not bring back
ChangesOnly(old, new, id) ==
  /\ \A j \in (Ids(old) \cup Ids(new)) \ { id } : WithId(new, j) = WithId(old, j)
  /\ HasId(new, id) => HasId(old, id)

\* C28: an emission of a drag, the live update or the commit, changes only
\* the dragged point of the collection that is current when it is made:
\* what another source has added, edited or deleted since the handlers were
\* installed is kept, and a deleted point is not brought back.  (Stated for
\* the emissions made when the current collection has been committed.)
C28_EmissionsMerge ==
  [][((debouncedUpdate \/ dragEnd) /\ mounted /\ ~dirty)
       => ChangesOnly(points, points', out'.id)]_vars
\* C28, supporting: an emission made from the collection that is current
\* changes only the dragged point
C28_FreshEmissions ==
  [][(/\ debouncedUpdate \/ dragEnd
      /\ mounted
      /\ IF out'.kind = "live" THEN pending.prev = points ELSE drag.pts = points)
       => ChangesOnly(points, points', out'.id)]_vars

(***************************************************************************)
(* Properties: the highlighted and the edited point                        *)
(***************************************************************************)
\* C29: highlightedPoint and editingPoint are each none or (the id of) a
\* point of the collection, after any sequence of dashboard operations.
C29_SelectionExists ==
  /\ highlightedPoint = 0 \/ HasId(points, highlightedPoint)
  /\ editingPoint = 0 \/ HasId(points, editingPoint)
\* C29, supporting: the operations of the dashboard other than the storage
\* listener, called with the closures of the current state, keep the
\* highlighted and the edited point in the collection
C29_HandlersKeepSelection ==
  [][(C29_SelectionExists /\ ~dirty /\ ~\E saved \in StoredCollections : onStorage(saved))
       => C29_SelectionExists']_vars

(***************************************************************************)
(* The edit dialog: typing, the debounced live change, save and close      *)
(***************************************************************************)
\* the dialog's timer runs in steps of half its delay
LiveTicks == { LiveDelay \div 2 }
\* values typed into the form
FormValues == { 30 * Unit, 40 * Unit }

NextDialog ==
  \/ \E id \in 1 .. MaxPoints : handlePointEdit(id)
  \/ \E x \in FormValues, y \in FormValues : handleChange(x, y)
  \/ \E dt \in LiveTicks : Tick(dt)
  \/ debouncedLiveEdge
  \/ \E x \in FormValues, y \in FormValues : handlePointSave(x, y)
  \/ handleEditDialogClose
  \/ render

SpecDialog == Init /\ [][NextDialog]_vars

\* C30: no debounced live change is delivered after the dialog has been
\* closed: a delivery finds the dialog open on the point it is for.
C30_NoLiveAfterClose ==
  out.op = "dialogLiveEdge" => editingPoint = out.id
\* C30, as a statement on the timer: closing the dialog leaves no call pending
C30_CancelledOnClose ==
  editingPoint = 0 => ~debouncedLive.on
\* C30, the consequence: the collection is not modified by a delivery while
\* no dialog is open
C30_CollectionKept ==
  [][(debouncedLiveEdge /\ editingPoint = 0) => points' = points]_vars

====
